---- MODULE Spec2Model ----
(***************************************************************************)
(* State-machine model of assembla_repositories.py: load_spaces_from_csv,  *)
(* fetch_assembla_repositories_for_space (lister + reporter),              *)
(* get_git_repo_statistics (enricher), save_repositories_to_csv (exporter) *)
(* and fetch_all_repositories / main.                                      *)
(*                                                                         *)
(* Conventions.                                                            *)
(*  - A Python str is a sequence of one-character strings; "" is << >>.    *)
(*  - A JSON object (Python dict) is a function whose DOMAIN is the set of *)
(*    keys present, so dict.get(k, d) is Get(d, k, default).  A list item  *)
(*    that is not a JSON object (a string, a number) is the dict           *)
(*    NonDict: every d.get(...) / d[...] on it raises.                     *)
(*  - A decoded JSON body is [kind, items]: a list of items, an object     *)
(*    (items are then its keys, which iteration yields as non-dict         *)
(*    values), a number (truthy, no len, not iterable) or null.            *)
(*  - An HTTP response is [exc, status, bad, val]: the request raised, or  *)
(*    answered with a status; bad says response.json() raises.             *)
(*  - The program is sequential: pc is the place of the single thread.     *)
(*  - Fields copied through unchanged and read by no decision (name,       *)
(*    menu_name, created_at, updated_at, default_branch, clone URLs) are   *)
(*    left out of the records; console output is kept only where it is the *)
(*    reporter's status label.  The destination file is taken to be        *)
(*    writable.                                                            *)
(***************************************************************************)
EXTENDS Integers, Sequences, FiniteSets, TLC

VARIABLES
    scope,              \* which bounded family of inputs this run draws from
    csv_file,           \* space_list.csv: "present" or "missing"
    csv_rows,           \* the space_name column of its data rows
    creds,              \* os.getenv of x-api-key and x-api-secret ("" when unset)
    pc,                 \* place of the program
    spaces,             \* fetch_all_repositories: spaces
    si,                 \* index of the space being processed
    all_repositories,   \* fetch_all_repositories: all_repositories
    outcomes,           \* per lister call: what it returned, and how many records
    repos_lookup,       \* lister: repos_lookup (a sequence of details, last id wins)
    space_tools,        \* lister: space_tools (decoded JSON)
    ti,                 \* lister: index of the tool in the for loop
    repositories,       \* lister: repositories
    repo_info,          \* lister: repo_info of the tool in progress
    stats,              \* enricher: stats
    branches_list,      \* enricher: branches_list (decoded JSON)
    all_commits,        \* enricher: all_commits (decoded JSON)
    latest_commit,      \* enricher: latest_commit (<< >> is None, <<c>> is c)
    latest_commit_date, \* enricher: latest_commit_date ("" when None)
    k,                  \* enricher: loop index (alternate endpoint or branch)
    collapsed,          \* enricher: payloads the duplicate check has found is_duplicate
    requests,           \* every requests.get issued so far, in order
    report,             \* reporter: status label printed per repository
    csv_out             \* exporter: <<>> no file, <<rows>> file with data rows

vars == << scope, csv_file, csv_rows, creds, pc, spaces, si, all_repositories,
           outcomes, repos_lookup, space_tools, ti, repositories, repo_info,
           stats, branches_list, all_commits, latest_commit,
           latest_commit_date, k, collapsed, requests, report, csv_out >>

----------------------------------------------------------------------------
(* Bounds of the model                                                     *)

MaxRows == 2
MaxTools == 2
MaxDetails == 2
MaxBranches == 3
MaxPayloadBranches == 2
MaxCommits == 2
MaxItems == 1

----------------------------------------------------------------------------
(* Python values                                                           *)

\* dict.get(key, default)
Get(d, key, default) == IF key \in DOMAIN d THEN d[key] ELSE default

\* the empty dict {}
EmptyDict == [x \in {} |-> << >>]

\* a list item that is not a JSON object
NonDict == [nondict |-> << >>]

IsDict(d) == "nondict" \notin DOMAIN d

\* bool(d) of a list item: {} is falsy, a non-empty dict or a non-empty scalar is truthy
Truthy(d) == DOMAIN d # {}

\* max(a, b)
Max(a, b) == IF a >= b THEN a ELSE b

\* a sequence of n copies of c
RECURSIVE Rep(_, _)
Rep(c, n) == IF n = 0 THEN << >> ELSE <<c>> \o Rep(c, n - 1)

\* s[:n]
Prefix(s, n) == IF Len(s) <= n THEN s ELSE SubSeq(s, 1, n)

\* characters str.strip() removes
Whitespace == {" ", "\t", "\n", "\r"}

RECURSIVE LStrip(_)
LStrip(s) ==
    IF s # << >> /\ Head(s) \in Whitespace THEN LStrip(Tail(s)) ELSE s

RECURSIVE RStrip(_)
RStrip(s) ==
    IF s # << >> /\ s[Len(s)] \in Whitespace
    THEN RStrip(SubSeq(s, 1, Len(s) - 1))
    ELSE s

\* str.strip()
Strip(s) == RStrip(LStrip(s))

\* the characters timestamps are made of, in code-point order
Alphabet == <<"-", "0", "1", "2", "3", "4", "5", "6", "7", "8", "9", ":", "T", "Z">>

Ord(c) == CHOOSE i \in 1..Len(Alphabet) : Alphabet[i] = c

\* a > b on str: lexicographic by code point
RECURSIVE StrGT(_, _)
StrGT(a, b) ==
    IF a = << >> THEN FALSE
    ELSE IF b = << >> THEN TRUE
    ELSE IF Head(a) = Head(b) THEN StrGT(Tail(a), Tail(b))
    ELSE Ord(Head(a)) > Ord(Head(b))

\* decoded JSON bodies
JList(items) == [kind |-> "list", items |-> items]
JObject(n) == [kind |-> "object", items |-> [i \in 1..n |-> NonDict]]
JNumber == [kind |-> "number", items |-> << >>]
JNull == [kind |-> "null", items |-> << >>]

\* len(v) raises TypeError
NoLen(v) == v.kind \in {"number", "null"}

\* len(v), where it is defined
PyLen(v) == Len(v.items)

\* bool(v)
JTruthy(v) == IF v.kind = "number" THEN TRUE ELSE v.items # << >>

\* for x in v raises TypeError
NotIterable(v) == v.kind \in {"number", "null"}

\* v[0] raises (KeyError on an object, TypeError on a number or null)
NoIndex0(v) == v.kind # "list"

\* HTTP responses
Raised == [exc |-> TRUE, status |-> 0, bad |-> TRUE, val |-> JNull]
Status(s) == [exc |-> FALSE, status |-> s, bad |-> TRUE, val |-> JNull]
Ok(v) == [exc |-> FALSE, status |-> 200, bad |-> FALSE, val |-> v]

\* sequences over S of length at most n
SeqUpTo(S, n) == UNION {[1..m -> S] : m \in 0..n}

\* a 200 answer whose body response.json() cannot decode
BadBody == Status(200)

\* response.raise_for_status() raises HTTPError
RaisesForStatus(r) == r.status >= 400

\* dict.update: d with the keys of e set to e's values
Update(d, e) ==
    [x \in DOMAIN d \cup DOMAIN e |-> IF x \in DOMAIN e THEN e[x] ELSE d[x]]

----------------------------------------------------------------------------
(* Sample inputs                                                           *)

\* commit.get('message', '')[:50]
KeyMsgLen == 50

Alpha == <<"A", "l", "p", "h", "a">>
Beta == <<"B", "e", "t", "a">>
Placeholder ==
    <<"M", "y", " ", "P", "r", "o", "j", "e", "c", "t", " ", "S", "p", "a", "c", "e">>

\* values of the space_name column
RowSamples ==
    { Alpha, <<" ">> \o Beta \o <<" ", "\t">>, << >>, <<" ", " ">>,
      Placeholder, <<" ">> \o Placeholder \o <<" ">> }

T1 == <<"2", "0", "2", "3">>
T2 == <<"2", "0", "2", "4">>
T3 == <<"2", "0", "2", "2", "-", "1", "2">>

Msg50 == Rep("m", KeyMsgLen)
MsgA == <<"f", "i", "x">>
MsgLong1 == Msg50 \o <<"1">>
MsgLong2 == Msg50 \o <<"2">>
MsgLines == <<"a", "\n", "b", "\r">>

Id1 == <<"c", "1">>
Id2 == <<"c", "2">>
Ann == <<"a", "n", "n">>

----------------------------------------------------------------------------
(* load_spaces_from_csv                                                    *)

\* faulty variant: the example entry is kept
ValidSpaceNonEmpty(space_name) == space_name # << >>

\* the row is kept: its stripped space_name is non-empty and not the example entry
ValidSpace(space_name) == space_name # << >> /\ space_name # Placeholder

RECURSIVE SpacesOfRows(_)
SpacesOfRows(rows) ==
    IF rows = << >> THEN << >>
    ELSE LET space_name == Strip(Head(rows))
         IN  (IF ValidSpace(space_name) THEN <<space_name>> ELSE << >>)
                 \o SpacesOfRows(Tail(rows))

\* the list load_spaces_from_csv returns ([] when the file cannot be opened)
load_spaces_from_csv(file, rows) ==
    IF file = "missing" THEN << >> ELSE SpacesOfRows(rows)

----------------------------------------------------------------------------
(* Lister: pure parts                                                      *)

\* a value of an environment variable that is set
Secret == <<"k">>

\* api_key and api_secret as os.getenv returns them (<< >>: unset or empty)
Credentials == [api_key : {<< >>, Secret}, api_secret : {<< >>, Secret}]

BothSet == [api_key |-> Secret, api_secret |-> Secret]

\* faulty variant: only the key is looked at
HasApiKey(c) == c.api_key # << >>

\* all([api_key, api_secret])
HasCredentials(c) == c.api_key # << >> /\ c.api_secret # << >>

repo_types == {"GitTool", "SubversionTool", "PerforceDepotTool"}

\* {repo['id']: repo for repo in repos_data} raises (TypeError or KeyError)
LookupRaises(val) ==
    \/ NotIterable(val)
    \/ \E i \in 1..Len(val.items) :
          ~IsDict(val.items[i]) \/ "id" \notin DOMAIN val.items[i]

\* tool_id in repos_lookup
InLookup(lookup, tool_id) == \E i \in 1..Len(lookup) : lookup[i].id = tool_id

\* repos_lookup[tool_id]: of two details with one id the dict keeps the later
Lookup(lookup, tool_id) ==
    lookup[CHOOSE i \in 1..Len(lookup) :
              /\ lookup[i].id = tool_id
              /\ \A j \in (i + 1)..Len(lookup) : lookup[j].id # tool_id]

\* tool_type in repo_types
IsRepositoryTool(tool) == Get(tool, "type", "") \in repo_types

\* faulty variant: statistics for every repository tool
WantsStatisticsOfAny(tool_type) == tool_type \in repo_types

\* tool_type == 'GitTool': get_git_repo_statistics is called
WantsStatistics(tool_type) == tool_type = "GitTool"

\* faulty variant: every repository with a detail record is likely imported
LikelyImportedAlways(repo_data) == TRUE

\* repo_info['is_likely_imported']
LikelyImported(repo_data) == Get(repo_data, "last_commit_at", << >>) # << >>

\* repo_info['has_commits_indicator']
HasCommitsIndicator(repo_data) == Get(repo_data, "last_commit_at", << >>) # << >>

\* repo_info after the tool's fields and the detail record are merged
MergeToolAndDetail(tool, space_name, lookup) ==
    LET tool_id == Get(tool, "id", 0)
        base == [id |-> tool_id, type |-> tool.type, space_name |-> space_name]
    IN  IF InLookup(lookup, tool_id)
        THEN LET repo_data == Lookup(lookup, tool_id)
             IN  Update(base,
                   [size |-> Get(repo_data, "size", 0),
                    last_commit_at |-> Get(repo_data, "last_commit_at", << >>),
                    is_likely_imported |-> LikelyImported(repo_data),
                    has_commits_indicator |-> HasCommitsIndicator(repo_data)])
        ELSE base

\* repos_lookup.get(tool_id) if tool_id in repos_lookup else None (None is {})
RepoDataForStats(lookup, tool_id) ==
    IF InLookup(lookup, tool_id) THEN Lookup(lookup, tool_id) ELSE EmptyDict

\* is_empty as the reporter computes it
IsEmptyReporter(repo) ==
    /\ Get(repo, "commits_count", 0) = 0
    /\ Get(repo, "branches_count", 0) = 0
    /\ Get(repo, "size", 0) = 0
    /\ Get(repo, "last_commit_at", << >>) = << >>
    /\ ~Get(repo, "has_commits_indicator", FALSE)

\* the status indicator the reporter prints
StatusIndicator(repo) ==
    IF IsEmptyReporter(repo) THEN "EMPTY REPOSITORY"
    ELSE IF Get(repo, "is_likely_imported", FALSE) THEN "IMPORTED REPOSITORY"
    ELSE ""

----------------------------------------------------------------------------
(* Exporter                                                                *)

\* faulty variant: the exporter's is_empty without the branch count
IsEmptyExporterNoBranches(repo) ==
    /\ Get(repo, "commits_count", 0) = 0
    /\ Get(repo, "size", 0) = 0
    /\ Get(repo, "last_commit_at", << >>) = << >>
    /\ ~Get(repo, "has_commits_indicator", FALSE)

\* is_empty as the exporter computes it
IsEmptyExporter(repo) ==
    /\ Get(repo, "commits_count", 0) = 0
    /\ Get(repo, "branches_count", 0) = 0
    /\ Get(repo, "size", 0) = 0
    /\ Get(repo, "last_commit_at", << >>) = << >>
    /\ ~Get(repo, "has_commits_indicator", FALSE)

\* the Is_Empty cell
IsEmptyCell(repo) ==
    IF IsEmptyExporter(repo) THEN "True"
    ELSE IF Get(repo, "is_likely_imported", FALSE) THEN "Imported"
    ELSE "False"

\* a numeric cell: the number, or '' when the key is missing
Cell(repo, key) == IF key \in DOMAIN repo THEN <<repo[key]>> ELSE << >>

\* the data row written for one repository
CsvRow(repo) ==
    [Space_Name |-> Get(repo, "space_name", << >>),
     ID |-> Cell(repo, "id"),
     Type |-> Get(repo, "type", ""),
     Size_Bytes |-> Cell(repo, "size"),
     Last_Commit_At |-> Get(repo, "last_commit_at", << >>),
     Commits_Count |-> Cell(repo, "commits_count"),
     Branches_Count |-> Cell(repo, "branches_count"),
     Tags_Count |-> Cell(repo, "tags_count"),
     Merge_Requests_Count |-> Cell(repo, "merge_requests_count"),
     Is_Empty |-> IsEmptyCell(repo),
     Last_Commit_Author |-> Get(repo, "last_commit_author", << >>),
     Last_Commit_Message |-> Get(repo, "last_commit_message", << >>)]

\* faulty variant: the last record gets no row
CsvRowsButLast(repos) == [i \in 1..(Len(repos) - 1) |-> CsvRow(repos[i])]

\* the data rows save_repositories_to_csv writes
CsvRows(repos) == [i \in 1..Len(repos) |-> CsvRow(repos[i])]

----------------------------------------------------------------------------
(* Enricher: pure parts                                                    *)

\* the stats dict get_git_repo_statistics starts from
InitialStats ==
    [commits_count |-> 0, branches_count |-> 0, tags_count |-> 0,
     merge_requests_count |-> 0, last_commit_author |-> << >>,
     last_commit_message |-> << >>, last_commit_at |-> << >>]

\* commit.get('id', commit.get('sha', commit.get('revision', '')))
IdentifierField(commit) ==
    Get(commit, "id", Get(commit, "sha", Get(commit, "revision", << >>)))

\* f"{message[:50]}_{authored_at, else committed_at}"
CompositeKey(commit) ==
    Prefix(Get(commit, "message", << >>), KeyMsgLen) \o <<"_">>
        \o Get(commit, "authored_at", Get(commit, "committed_at", << >>))

\* commit_id / existing_id of the duplicate check
CommitId(commit) ==
    IF IdentifierField(commit) # << >> THEN IdentifierField(commit)
    ELSE CompositeKey(commit)

\* faulty variant: duplicates are recognised by the id field alone
IsDuplicateById(commit, commits) ==
    \E i \in 1..Len(commits) :
        /\ "id" \in DOMAIN commit
        /\ "id" \in DOMAIN commits[i]
        /\ commit.id = commits[i].id

\* is_duplicate after the scan of all_commits
IsDuplicate(commit, commits) ==
    \E i \in 1..Len(commits) : CommitId(commit) = CommitId(commits[i])

\* commit_date of the latest-commit tracking
CommitDate(commit) ==
    Get(commit, "authored_at", Get(commit, "committed_at", Get(commit, "date", << >>)))

\* faulty variant: every dated commit replaces latest_commit
IsLaterOrEqual(commit_date, latest_date) == commit_date # << >>

\* the tracking condition: this commit replaces latest_commit
IsLater(commit_date, latest_date) ==
    commit_date # << >> /\ (latest_date = << >> \/ StrGT(commit_date, latest_date))

\* the loop over branch_commits from item i on; acc is [all, latest, date, dup]
\* (dup counts the payloads found duplicate); a non-dict item raises inside
\* the try, which ends the loop and keeps acc
RECURSIVE AddBranchCommits(_, _, _)
AddBranchCommits(items, i, acc) ==
    IF i > Len(items) THEN acc
    ELSE IF ~IsDict(items[i]) THEN acc
    ELSE IF IsDuplicate(items[i], acc.all)
    THEN AddBranchCommits(items, i + 1, [acc EXCEPT !.dup = @ + 1])
    ELSE LET commit == items[i]
             later == IsLater(CommitDate(commit), acc.date)
         IN  AddBranchCommits(items, i + 1,
                 [all |-> Append(acc.all, commit),
                  latest |-> IF later THEN <<commit>> ELSE acc.latest,
                  date |-> IF later THEN CommitDate(commit) ELSE acc.date,
                  dup |-> acc.dup])

\* the loop over branch_commits raises (caught at line 343)
BranchCommitsRaise(items) == \E i \in 1..Len(items) : ~IsDict(items[i])

\* branch.get('name', branch.get('id', 'unknown'))
BranchName(branch) == Get(branch, "name", Get(branch, "id", <<"unknown">>))

\* faulty variant: the branch is never passed
BranchParamsNone(branch) == << >>

\* the query parameters of the per-branch commits request
BranchParams(branch) ==
    IF BranchName(branch) # <<"unknown">> THEN <<BranchName(branch)>> ELSE << >>

\* s.replace('\n', ' ').replace('\r', ' ')
ReplaceNewlines(s) ==
    [i \in 1..Len(s) |-> IF s[i] \in {"\n", "\r"} THEN " " ELSE s[i]]

\* last_commit_author: author is a str ("author"), or a dict whose name and
\* login are the keys "author.name" and "author.login"
AuthorOf(commit) ==
    IF "author" \in DOMAIN commit THEN commit["author"]
    ELSE Get(commit, "author.name", Get(commit, "author.login", << >>))

\* faulty variant: the estimate is 1 whatever the branch count
EstimatedCommitsOne(branches_count) == 1

\* the estimate when no commit came from the API but the detail has last_commit_at
EstimatedCommits(branches_count) ==
    IF branches_count > 0 THEN Max(1, branches_count) ELSE 1

\* "Set final statistics" raises: len(all_commits) or latest_commit.get(...)
FinalRaises(commits, latest) ==
    \/ NoLen(commits)
    \/ latest # << >> /\ ~IsDict(latest[1])

\* stats after "Set final statistics" (lines 400-424)
FinalStats(st, commits, latest, repo_data) ==
    LET counted == [st EXCEPT !.commits_count = PyLen(commits)]
    IN  IF latest # << >> /\ Truthy(latest[1])
        THEN [counted EXCEPT
                 !.last_commit_author = AuthorOf(latest[1]),
                 !.last_commit_message =
                     ReplaceNewlines(Get(latest[1], "message", << >>)),
                 !.last_commit_at =
                     Get(latest[1], "authored_at",
                         Get(latest[1], "committed_at", << >>))]
        ELSE IF /\ Get(repo_data, "last_commit_at", << >>) # << >>
                /\ counted.commits_count = 0
        THEN [counted EXCEPT
                 !.last_commit_at = repo_data.last_commit_at,
                 !.commits_count = EstimatedCommits(counted.branches_count)]
        ELSE counted

\* the URL of the primary request: the detail's own URL (host rewritten) or the default
UrlKind(repo_data, key) ==
    IF Get(repo_data, key, << >>) # << >> THEN "repo_data" ELSE "default"

----------------------------------------------------------------------------
(* Bounded inputs.  A run draws its inputs from one family (scope): each   *)
(* family is rich in one dimension and small in the others.                *)
(*   rows      the space list, the file and the credentials               *)
(*   spaces    several spaces, each listing failing or succeeding          *)
(*   lister    one space, tool listings and detail records                 *)
(*   branches  one Git repository, the branches fetch and its alternates   *)
(*   commits   one Git repository, the commits fetch and its alternates    *)
(*   payloads  one Git repository, branch and commit payloads              *)
(*   counts    one Git repository, the tags and merge requests fetches     *)

Scopes == {"rows", "spaces", "lister", "branches", "commits", "payloads", "counts"}

GitTool1 == [id |-> 1, type |-> "GitTool"]
SvnTool2 == [id |-> 2, type |-> "SubversionTool"]
PerforceTool2 == [id |-> 2, type |-> "PerforceDepotTool"]
WikiTool1 == [id |-> 1, type |-> "WikiTool"]
UntypedTool == [id |-> 2]

Url == <<"u">>
DetailPlain == [id |-> 1, size |-> 0]
DetailCommitted == [id |-> 1, size |-> 0, last_commit_at |-> T3]
DetailOther == [id |-> 2, size |-> 2048, last_commit_at |-> << >>]
DetailUrls ==
    [id |-> 1, size |-> 2048, last_commit_at |-> T3,
     branches_url |-> Url, commits_url |-> Url]

BranchMain == [name |-> <<"m">>]
BranchDev == [id |-> <<"7">>]

CommitA == [id |-> Id1, message |-> MsgA, authored_at |-> T1, author |-> Ann]
CommitB == [id |-> Id1, message |-> MsgLines, committed_at |-> T2]
CommitE == [id |-> << >>, sha |-> Id2, message |-> MsgLong1, authored_at |-> T1]
CommitF == [message |-> MsgLong2, authored_at |-> T1, date |-> T2]
CommitG == [revision |-> Id2, message |-> MsgA]
CommitH == [sha |-> Id2, message |-> MsgLines, date |-> T2]

\* a list of n items whose content is not read
Items(n) == JList([i \in 1..n |-> EmptyDict])

\* answers that are no usable 200
Failures == {Raised, Status(404), BadBody}

RowLists(sc) ==
    IF sc = "rows" THEN SeqUpTo(RowSamples, MaxRows)
    ELSE IF sc = "spaces" THEN [1..MaxRows -> {Alpha, Beta}]
    ELSE {<<Alpha>>}

ReposResponses(sc) ==
    IF sc = "rows" THEN {Status(404), Ok(JList(<< >>))}
    ELSE IF sc = "spaces"
    THEN Failures \cup {Status(204), Ok(JNumber), Ok(JList(<<NonDict>>)),
                        Ok(JList(<<[size |-> 0]>>)), Ok(JList(<<DetailCommitted>>))}
    ELSE IF sc = "lister"
    THEN {Ok(JList(d)) :
            d \in SeqUpTo({DetailPlain, DetailCommitted, DetailOther}, MaxDetails)}
    ELSE IF sc = "payloads"
    THEN {Ok(JList(<< >>)), Ok(JList(<<DetailCommitted>>))}
    ELSE {Ok(JList(<< >>)), Ok(JList(<<DetailPlain>>)),
          Ok(JList(<<DetailCommitted>>)), Ok(JList(<<DetailUrls>>))}

ToolsResponses(sc) ==
    IF sc = "rows" THEN {Ok(JList(<<SvnTool2>>)), Ok(JList(<<WikiTool1>>))}
    ELSE IF sc = "spaces"
    THEN Failures \cup {Status(204), Ok(JNumber), Ok(JObject(1)), Ok(JList(<< >>)),
                        Ok(JList(<<WikiTool1>>)), Ok(JList(<<GitTool1>>)),
                        Ok(JList(<<SvnTool2, NonDict>>)),
                        Ok(JList(<<SvnTool2, GitTool1>>))}
    ELSE IF sc = "lister"
    THEN {Ok(JList(t)) :
            t \in SeqUpTo({GitTool1, SvnTool2, PerforceTool2, WikiTool1, UntypedTool},
                          MaxTools)}
    ELSE {Ok(JList(<<GitTool1>>))}

BranchBodies(sc) ==
    IF sc = "branches"
    THEN {JList(b) : b \in SeqUpTo({BranchMain, BranchDev, EmptyDict, NonDict}, MaxBranches)}
             \cup {JNumber, JNull, JObject(1)}
    ELSE IF sc = "commits"
    THEN {JList(b) : b \in SeqUpTo({BranchMain, EmptyDict}, MaxBranches)}
    ELSE IF sc = "payloads"
    THEN {JList(b) : b \in SeqUpTo({BranchMain}, MaxPayloadBranches)}
    ELSE {JList(<<BranchMain>>)}

BranchResponses(sc) ==
    IF sc \in {"rows", "spaces"} THEN {Status(404)}
    ELSE {Ok(v) : v \in BranchBodies(sc)} \cup
         (IF sc = "branches" THEN Failures \cup {Status(204)}
          ELSE IF sc \in {"commits", "payloads"} THEN {Status(204)}
          ELSE {Status(404)})

BranchAltResponses(sc) ==
    IF sc = "branches"
    THEN Failures \cup {Status(204)} \cup {Ok(v) : v \in BranchBodies(sc)}
    ELSE {Status(404), Ok(JList(<<BranchMain>>))}

TagResponses(sc) ==
    IF sc = "counts"
    THEN Failures \cup {Status(204), Ok(JNumber)}
             \cup {Ok(Items(n)) : n \in 0..MaxItems}
    ELSE {Ok(Items(1))}

CommitSamples(sc) ==
    IF sc = "payloads"
    THEN {CommitA, CommitB, CommitE, CommitF, CommitH}
    ELSE {CommitA}

CommitBodies(sc) ==
    IF sc = "payloads"
    THEN {JList(c) : c \in SeqUpTo(CommitSamples(sc), MaxCommits)}
    ELSE IF sc = "commits"
    THEN {JList(<< >>), JList(<<CommitA>>), JList(<<CommitG>>), JList(<<NonDict>>),
          JList(<<CommitA, NonDict>>), JList(<<EmptyDict>>),
          JNumber, JNull, JObject(1)}
    ELSE {JList(<<CommitA>>)}

BranchCommitResponses(sc) ==
    IF sc \in {"branches", "lister"} THEN {Status(404)}
    ELSE IF sc \in {"rows", "spaces"} THEN {Ok(JList(<<CommitA>>))}
    ELSE IF sc = "commits"
    THEN Failures \cup {Ok(JNumber), Ok(JList(<<CommitA>>)),
                        Ok(JList(<<CommitA, NonDict>>)), Ok(JList(<<CommitG>>))}
    ELSE {Ok(v) : v \in CommitBodies(sc)} \cup {Status(404)}

CommitResponses(sc) ==
    IF sc \in {"rows", "spaces", "lister"} THEN {Ok(JList(<<CommitA>>))}
    ELSE {Ok(v) : v \in CommitBodies(sc)} \cup
         (IF sc = "commits" THEN Failures \cup {Status(204), Status(422)}
          ELSE {Status(422)})

CommitAltResponses(sc) ==
    IF sc = "commits"
    THEN Failures \cup {Status(204)} \cup {Ok(v) : v \in CommitBodies(sc)}
    ELSE {Status(404), Ok(JList(<<CommitA>>))}

MrResponses(sc) ==
    IF sc = "counts"
    THEN Failures \cup {Status(204), Ok(JNumber)}
             \cup {Ok(Items(n)) : n \in 0..MaxItems}
    ELSE {Status(404)}

----------------------------------------------------------------------------
(* The program                                                             *)

NoList == JList(<< >>)

\* one requests.get: endpoint, space, repository, position in the alternates
\* list (0: not an alternate), URL kind, query parameters, the status answered
\* (0: the request raised), whether a 200 body was decoded and taken without
\* an exception, and then the number of items it held
Request(ep, space, repo, alt, url, params, resp, took) ==
    [ep |-> ep, space |-> space, repo |-> repo, alt |-> alt, url |-> url,
     params |-> params, status |-> resp.status, took |-> took,
     n |-> IF took THEN PyLen(resp.val) ELSE 0]

Init ==
    /\ scope \in Scopes
    /\ csv_file \in (IF scope = "rows" THEN {"present", "missing"} ELSE {"present"})
    /\ csv_rows \in (IF csv_file = "missing" THEN {<< >>} ELSE RowLists(scope))
    /\ creds \in (IF scope = "rows" THEN Credentials ELSE {BothSet})
    /\ pc = "start"
    /\ spaces = << >>
    /\ si = 0
    /\ all_repositories = << >>
    /\ outcomes = << >>
    /\ repos_lookup = << >>
    /\ space_tools = NoList
    /\ ti = 0
    /\ repositories = << >>
    /\ repo_info = EmptyDict
    /\ stats = InitialStats
    /\ branches_list = NoList
    /\ all_commits = NoList
    /\ latest_commit = << >>
    /\ latest_commit_date = << >>
    /\ k = 0
    /\ collapsed = 0
    /\ requests = << >>
    /\ report = << >>
    /\ csv_out = << >>

inputs == << scope, csv_file, csv_rows, creds >>
listerVars == << repos_lookup, space_tools, ti, repositories, repo_info >>
enricherVars ==
    << stats, branches_list, all_commits, latest_commit, latest_commit_date, k,
       collapsed >>
runVars == << spaces, si, all_repositories, outcomes, report, csv_out >>

\* the enricher's locals are gone once it returns or raises
ResetEnricher ==
    /\ stats' = InitialStats
    /\ branches_list' = NoList
    /\ all_commits' = NoList
    /\ latest_commit' = << >>
    /\ latest_commit_date' = << >>
    /\ k' = 0
    /\ collapsed' = 0

\* the lister's locals are gone once it returns
ResetLister ==
    /\ repos_lookup' = << >>
    /\ space_tools' = NoList
    /\ ti' = 0
    /\ repositories' = << >>
    /\ repo_info' = EmptyDict

\* fetch_all_repositories: load the spaces; with none, return None and main
\* reports the failure without writing a file
LoadSpaces ==
    /\ pc = "start"
    /\ spaces' = load_spaces_from_csv(csv_file, csv_rows)
    /\ si' = 1
    /\ pc' = IF spaces' = << >> THEN "done" ELSE "space"
    /\ UNCHANGED << inputs, all_repositories, outcomes, report, csv_out,
                    listerVars, enricherVars, requests >>

\* faulty variant: a space without result empties all_repositories
ListerReturnsNoneAndClears(outcome) ==
    /\ outcomes' = Append(outcomes, [result |-> outcome, count |-> 0])
    /\ si' = si + 1
    /\ pc' = "space"
    /\ ResetLister
    /\ all_repositories' = << >>
    /\ report' = << >>
    /\ UNCHANGED << spaces, csv_out >>

\* the lister returns None: the space adds nothing to all_repositories
ListerReturnsNone(outcome) ==
    /\ outcomes' = Append(outcomes, [result |-> outcome, count |-> 0])
    /\ si' = si + 1
    /\ pc' = "space"
    /\ ResetLister
    /\ UNCHANGED << spaces, all_repositories, report, csv_out >>

\* lister, lines 44-77: credentials, then repos.json and the lookup by id
FetchRepos ==
    /\ pc = "space"
    /\ si <= Len(spaces)
    /\ IF ~HasCredentials(creds)
       THEN /\ ListerReturnsNone("no_credentials")
            /\ UNCHANGED requests
       ELSE \E resp \in ReposResponses(scope) :
              LET failed == \/ resp.exc
                            \/ RaisesForStatus(resp)
                            \/ resp.bad
                            \/ LookupRaises(resp.val)
              IN  /\ requests' = Append(requests,
                        Request("repos", spaces[si], 0, 0, "default", << >>,
                                resp, ~failed))
                  /\ IF failed
                     THEN ListerReturnsNone("error")
                     ELSE /\ repos_lookup' = resp.val.items
                          /\ pc' = "tools"
                          /\ UNCHANGED << space_tools, ti, repositories, repo_info,
                                          runVars >>
    /\ UNCHANGED << inputs, enricherVars >>

\* lister, lines 79-90: space_tools.json
FetchSpaceTools ==
    /\ pc = "tools"
    /\ \E resp \in ToolsResponses(scope) :
          LET failed == \/ resp.exc
                        \/ RaisesForStatus(resp)
                        \/ resp.bad
                        \/ NotIterable(resp.val)
          IN  /\ requests' = Append(requests,
                    Request("space_tools", spaces[si], 0, 0, "default", << >>,
                            resp, ~failed))
              /\ IF failed
                 THEN ListerReturnsNone("error")
                 ELSE /\ space_tools' = resp.val
                      /\ ti' = 1
                      /\ pc' = "tool"
                      /\ UNCHANGED << repos_lookup, repositories, repo_info, runVars >>
    /\ UNCHANGED << inputs, enricherVars >>

\* lister, lines 92-144: one iteration of the loop over space_tools, up to the
\* call of get_git_repo_statistics for a GitTool
ProcessTool ==
    /\ pc = "tool"
    /\ ti <= Len(space_tools.items)
    /\ LET tool == space_tools.items[ti]
       IN  IF ~IsDict(tool)
           THEN ListerReturnsNone("error")
           ELSE IF ~IsRepositoryTool(tool)
           THEN /\ ti' = ti + 1
                /\ UNCHANGED << pc, repos_lookup, space_tools, repositories,
                                repo_info, runVars >>
           ELSE LET info == MergeToolAndDetail(tool, spaces[si], repos_lookup)
                IN  IF WantsStatistics(tool.type)
                    THEN /\ repo_info' = info
                         /\ pc' = "branches"
                         /\ UNCHANGED << ti, repos_lookup, space_tools,
                                         repositories, runVars >>
                    ELSE /\ repositories' = Append(repositories, info)
                         /\ ti' = ti + 1
                         /\ UNCHANGED << pc, repos_lookup, space_tools, repo_info,
                                         runVars >>
    /\ UNCHANGED << inputs, enricherVars, requests >>

\* lister, lines 146-198, and fetch_all_repositories, lines 515-519: after the
\* loop the lister returns None for no repository, else reports each
\* repository and returns the list, which the caller appends
ReturnRepositories ==
    /\ pc = "tool"
    /\ ti > Len(space_tools.items)
    /\ IF repositories = << >>
       THEN ListerReturnsNone("empty")
       ELSE /\ report' = report \o
                  [i \in 1..Len(repositories) |-> StatusIndicator(repositories[i])]
            /\ all_repositories' = all_repositories \o repositories
            /\ outcomes' = Append(outcomes,
                  [result |-> "ok", count |-> Len(repositories)])
            /\ si' = si + 1
            /\ pc' = "space"
            /\ ResetLister
            /\ UNCHANGED << spaces, csv_out >>
    /\ UNCHANGED << inputs, enricherVars, requests >>

\* main, lines 528-555: after the last space, export when there is a record
Main ==
    /\ pc = "space"
    /\ si > Len(spaces)
    /\ csv_out' = IF all_repositories # << >>
                  THEN <<CsvRows(all_repositories)>>
                  ELSE << >>
    /\ pc' = "done"
    /\ UNCHANGED << inputs, spaces, si, all_repositories, outcomes, report,
                    listerVars, enricherVars, requests >>

\* alternative_endpoints / alternative_commit_endpoints have three entries
NumAlternates == 3

\* faulty variant: the loop over the alternates has no break
AltChainNeverBreaks(took, alt) == alt = NumAlternates

\* the loop over the alternates ends: break after a 200 taken, or the list is done
AltChainEnds(took, alt) == took \/ alt = NumAlternates

\* lister, lines 141-144: get_git_repo_statistics raised; the repository is
\* appended without statistics
AbortEnrichment ==
    /\ repositories' = Append(repositories, repo_info)
    /\ repo_info' = EmptyDict
    /\ ti' = ti + 1
    /\ pc' = "tool"
    /\ ResetEnricher
    /\ UNCHANGED << repos_lookup, space_tools >>

\* the enricher goes on to place p with its locals set
Continue(p, st, bl, ac, lc, lcd, kk, col) ==
    /\ pc' = p
    /\ stats' = st
    /\ branches_list' = bl
    /\ all_commits' = ac
    /\ latest_commit' = lc
    /\ latest_commit_date' = lcd
    /\ k' = kk
    /\ collapsed' = col
    /\ UNCHANGED listerVars

\* repo_data of the repository in progress (EmptyDict: None)
RepoData == RepoDataForStats(repos_lookup, repo_info.id)

\* a 200 answer whose body response.json() decodes
Decoded(resp) == ~resp.exc /\ resp.status = 200 /\ ~resp.bad

\* enricher, lines 227-275: the primary branches request
FetchBranches ==
    /\ pc = "branches"
    /\ \E resp \in BranchResponses(scope) :
          LET took == Decoded(resp) /\ ~NoLen(resp.val)
              chain == ~resp.exc /\ resp.status = 204
          IN  /\ requests' = Append(requests,
                    Request("branches", spaces[si], repo_info.id, 0,
                            UrlKind(RepoData, "branches_url"), << >>, resp, took))
              /\ Continue(IF chain THEN "branch_alt" ELSE "tags",
                          IF took THEN [stats EXCEPT !.branches_count = PyLen(resp.val)]
                          ELSE stats,
                          IF Decoded(resp) THEN resp.val ELSE branches_list,
                          all_commits, latest_commit, latest_commit_date,
                          IF chain THEN 1 ELSE 0, collapsed)
    /\ UNCHANGED << inputs, runVars >>

\* enricher, lines 253-270: alternate branches endpoint k
FetchBranchAlt ==
    /\ pc = "branch_alt"
    /\ \E resp \in BranchAltResponses(scope) :
          LET took == Decoded(resp) /\ ~NoLen(resp.val)
              last == AltChainEnds(took, k)
          IN  /\ requests' = Append(requests,
                    Request("branches", spaces[si], repo_info.id, k, "alternate",
                            << >>, resp, took))
              /\ Continue(IF last THEN "tags" ELSE "branch_alt",
                          IF took THEN [stats EXCEPT !.branches_count = PyLen(resp.val)]
                          ELSE stats,
                          IF Decoded(resp) THEN resp.val ELSE branches_list,
                          all_commits, latest_commit, latest_commit_date,
                          IF last THEN 0 ELSE k + 1, collapsed)
    /\ UNCHANGED << inputs, runVars >>

\* enricher, lines 277-295: the tags request, then the choice of the commits
\* path; for branch in branches_list raises on a truthy value that is no
\* collection
FetchTags ==
    /\ pc = "tags"
    /\ \E resp \in TagResponses(scope) :
          LET took == Decoded(resp) /\ ~NoLen(resp.val)
          IN  /\ requests' = Append(requests,
                    Request("tags", spaces[si], repo_info.id, 0, "default", << >>,
                            resp, took))
              /\ IF JTruthy(branches_list) /\ NotIterable(branches_list)
                 THEN AbortEnrichment
                 ELSE Continue(IF JTruthy(branches_list) THEN "branch_commits"
                               ELSE "commits",
                               IF took THEN [stats EXCEPT !.tags_count = PyLen(resp.val)]
                               ELSE stats,
                               branches_list, all_commits, latest_commit,
                               latest_commit_date,
                               IF JTruthy(branches_list) THEN 1 ELSE 0, collapsed)
    /\ UNCHANGED << inputs, runVars >>

\* enricher, lines 295-344: the commits of branch k, added to all_commits
\* unless duplicate
FetchBranchCommits ==
    /\ pc = "branch_commits"
    /\ LET branch == branches_list.items[k]
           last == k = Len(branches_list.items)
       IN  IF ~IsDict(branch)
           THEN AbortEnrichment /\ UNCHANGED requests
           ELSE \E resp \in BranchCommitResponses(scope) :
                  LET usable == Decoded(resp) /\ ~NoLen(resp.val)
                      acc == IF usable
                             THEN AddBranchCommits(resp.val.items, 1,
                                      [all |-> all_commits.items,
                                       latest |-> latest_commit,
                                       date |-> latest_commit_date,
                                       dup |-> collapsed])
                             ELSE [all |-> all_commits.items,
                                   latest |-> latest_commit,
                                   date |-> latest_commit_date,
                                   dup |-> collapsed]
                      took == usable /\ ~BranchCommitsRaise(resp.val.items)
                  IN  /\ requests' = Append(requests,
                            Request("commits", spaces[si], repo_info.id, 0,
                                    UrlKind(RepoData, "commits_url"),
                                    BranchParams(branch), resp, took))
                      /\ Continue(IF last THEN "finalize" ELSE "branch_commits",
                                  stats, branches_list, JList(acc.all), acc.latest,
                                  acc.date, IF last THEN 0 ELSE k + 1, acc.dup)
    /\ UNCHANGED << inputs, runVars >>

\* what the unparameterized request and each alternate do with a 200 body:
\* all_commits = response.json(); len(all_commits); latest_commit = all_commits[0]
CommitsTaken(resp) ==
    /\ Decoded(resp)
    /\ ~NoLen(resp.val)
    /\ (JTruthy(resp.val) => ~NoIndex0(resp.val))

LatestOfList(resp) ==
    IF CommitsTaken(resp) /\ JTruthy(resp.val)
    THEN <<resp.val.items[1]>>
    ELSE latest_commit

\* enricher, lines 346-398: the commits request without a branch
FetchCommits ==
    /\ pc = "commits"
    /\ \E resp \in CommitResponses(scope) :
          LET chain == ~resp.exc /\ resp.status = 422
          IN  /\ requests' = Append(requests,
                    Request("commits", spaces[si], repo_info.id, 0,
                            UrlKind(RepoData, "commits_url"), << >>, resp,
                            CommitsTaken(resp)))
              /\ Continue(IF chain THEN "commit_alt" ELSE "finalize",
                          stats, branches_list,
                          IF Decoded(resp) THEN resp.val ELSE all_commits,
                          LatestOfList(resp), latest_commit_date,
                          IF chain THEN 1 ELSE 0, collapsed)
    /\ UNCHANGED << inputs, runVars >>

\* enricher, lines 372-390: alternate commits endpoint k
FetchCommitAlt ==
    /\ pc = "commit_alt"
    /\ \E resp \in CommitAltResponses(scope) :
          LET last == AltChainEnds(CommitsTaken(resp), k)
          IN  /\ requests' = Append(requests,
                    Request("commits", spaces[si], repo_info.id, k, "alternate",
                            << >>, resp, CommitsTaken(resp)))
              /\ Continue(IF last THEN "finalize" ELSE "commit_alt",
                          stats, branches_list,
                          IF Decoded(resp) THEN resp.val ELSE all_commits,
                          LatestOfList(resp), latest_commit_date,
                          IF last THEN 0 ELSE k + 1, collapsed)
    /\ UNCHANGED << inputs, runVars >>

\* enricher, lines 400-424: commits_count, the latest commit's fields, the estimate
SetFinalStatistics ==
    /\ pc = "finalize"
    /\ IF FinalRaises(all_commits, latest_commit)
       THEN AbortEnrichment
       ELSE Continue("mr", FinalStats(stats, all_commits, latest_commit, RepoData),
                     branches_list, all_commits, latest_commit, latest_commit_date,
                     k, collapsed)
    /\ UNCHANGED << inputs, runVars, requests >>

\* enricher, lines 426-437, and lister, lines 139-144: the merge requests
\* request; the stats are returned, merged into repo_info, and the repository
\* is appended
FetchMergeRequests ==
    /\ pc = "mr"
    /\ \E resp \in MrResponses(scope) :
          LET took == Decoded(resp) /\ ~NoLen(resp.val)
              returned == IF took
                          THEN [stats EXCEPT !.merge_requests_count = PyLen(resp.val)]
                          ELSE stats
          IN  /\ requests' = Append(requests,
                    Request("merge_requests", spaces[si], repo_info.id, 0, "default",
                            << >>, resp, took))
              /\ repositories' = Append(repositories, Update(repo_info, returned))
    /\ repo_info' = EmptyDict
    /\ ti' = ti + 1
    /\ pc' = "tool"
    /\ ResetEnricher
    /\ UNCHANGED << inputs, runVars, repos_lookup, space_tools >>

Next ==
    \/ LoadSpaces
    \/ FetchRepos
    \/ FetchSpaceTools
    \/ ProcessTool
    \/ FetchBranches
    \/ FetchBranchAlt
    \/ FetchTags
    \/ FetchBranchCommits
    \/ FetchCommits
    \/ FetchCommitAlt
    \/ SetFinalStatistics
    \/ FetchMergeRequests
    \/ ReturnRepositories
    \/ Main

Spec == Init /\ [][Next]_vars

----------------------------------------------------------------------------
(* Claims                                                                  *)

\* the status that starts the alternates of a chain
ChainTrigger(ep) == IF ep = "branches" THEN 204 ELSE 422

\* requests[j] continues the request before it: same endpoint, space, repository
SameChain(j) ==
    /\ j > 1
    /\ requests[j - 1].ep = requests[j].ep
    /\ requests[j - 1].space = requests[j].space
    /\ requests[j - 1].repo = requests[j].repo

\* the alternates of both chains are requested in list order, each only after
\* the one before it has been requested, the first only after the primary
\* request answered the chain's trigger status
AlternatesInOrder ==
    \A j \in 1..Len(requests) :
        requests[j].alt > 0 =>
            /\ requests[j].ep \in {"branches", "commits"}
            /\ requests[j].alt <= NumAlternates
            /\ SameChain(j)
            /\ requests[j - 1].alt = requests[j].alt - 1
            /\ requests[j].alt = 1 =>
                   requests[j - 1].status = ChainTrigger(requests[j].ep)

\* the state right after an alternate was requested: the chain has moved to
\* the next alternate, or has ended with the result of this one
AfterAlternate ==
    Len(requests) > 0 /\ requests[Len(requests)].alt > 0
    /\ pc \in {"branch_alt", "commit_alt", "tags", "finalize"} =>
        LET r == requests[Len(requests)]
        IN  IF r.took
            THEN IF r.ep = "branches"
                 THEN /\ pc = "tags"
                      /\ stats.branches_count = r.n
                      /\ PyLen(branches_list) = r.n
                 ELSE /\ pc = "finalize"
                      /\ PyLen(all_commits) = r.n
            ELSE IF r.alt < NumAlternates
                 THEN /\ pc = IF r.ep = "branches" THEN "branch_alt" ELSE "commit_alt"
                      /\ k = r.alt + 1
                 ELSE pc = IF r.ep = "branches" THEN "tags" ELSE "finalize"

PayloadIdentifier(c) ==
    IF "id" \in DOMAIN c THEN c.id
    ELSE IF "sha" \in DOMAIN c THEN c.sha
    ELSE IF "revision" \in DOMAIN c THEN c.revision
    ELSE << >>

\* the timestamp of the composite: authored_at, else committed_at
PayloadTimestamp(c) ==
    IF "authored_at" \in DOMAIN c THEN c.authored_at
    ELSE IF "committed_at" \in DOMAIN c THEN c.committed_at
    ELSE << >>

PayloadMessage50(c) ==
    IF "message" \in DOMAIN c THEN Prefix(c.message, KeyMsgLen) ELSE << >>

\* two payloads the claim takes for one commit
SamePayload(c, d) ==
    \/ /\ PayloadIdentifier(c) # << >>
       /\ PayloadIdentifier(c) = PayloadIdentifier(d)
    \/ /\ PayloadIdentifier(c) = << >>
       /\ PayloadIdentifier(d) = << >>
       /\ PayloadMessage50(c) = PayloadMessage50(d)
       /\ PayloadTimestamp(c) = PayloadTimestamp(d)

\* all_commits is a list of payloads, no two of them the same commit
OneEntryPerCommit ==
    \A i, j \in 1..Len(all_commits.items) :
        (i # j /\ IsDict(all_commits.items[i]) /\ IsDict(all_commits.items[j]))
            => ~SamePayload(all_commits.items[i], all_commits.items[j])

\* commits were fetched per branch (branches_list was truthy)
PerBranchPath == JTruthy(branches_list)

\* C2 as stated: on every path two commit payloads with the same identifier
\* (or, without one, the same 50-character message and timestamp) are one
\* entry of the aggregate, whichever branch or response supplied them.
C2_AsStated ==
    pc \in {"branch_commits", "finalize", "mr"} /\ all_commits.kind = "list"
        => OneEntryPerCommit

\* C2, amended: on the per-branch path two commit payloads with the same
\* identifier (the value of id when present, else sha, else revision, when
\* it is not empty) or, without one, the same first 50 characters of the
\* message and the same authored_at / committed_at, are one entry of the
\* aggregate and count once in commits_count, whichever branch supplied them;
\* the request without a branch and its alternates take the list as answered.
C2_PerBranchDeduplicated ==
    (pc \in {"branch_commits", "finalize", "mr"} /\ PerBranchPath) =>
        /\ OneEntryPerCommit
        /\ (pc = "mr" /\ all_commits.items # << >>) =>
               stats.commits_count = Len(all_commits.items)

\* two branches each answered one payload, and the second was the commit of
\* the first: one entry
C2_Witness ==
    /\ pc = "mr"
    /\ PerBranchPath
    /\ collapsed = 1
    /\ Len(all_commits.items) = 1
    /\ stats.commits_count = 1
    /\ \E i, j \in 1..Len(requests) :
          /\ i < j
          /\ requests[i].ep = "commits" /\ requests[i].took /\ requests[i].n = 1
          /\ requests[j].ep = "commits" /\ requests[j].took /\ requests[j].n = 1

\* the expected estimate, from the branch count
ExpectedEstimate(branches_count) == IF branches_count >= 1 THEN branches_count ELSE 1

\* C4: when the API yielded no commit and the detail record has a last-commit
\* timestamp, commits_count is the branch count if there are branches and 1
\* otherwise, and last_commit_at is the detail's timestamp; without the
\* detail's timestamp commits_count stays 0.
C4_EstimatedCommitCount ==
    (pc = "mr" /\ PyLen(all_commits) = 0) =>
        IF Get(RepoData, "last_commit_at", << >>) # << >>
        THEN /\ stats.commits_count = ExpectedEstimate(stats.branches_count)
             /\ stats.last_commit_at = RepoData.last_commit_at
        ELSE stats.commits_count = 0

\* three branches, no commit from the API, a detail timestamp: 3 commits
C4_Witness ==
    /\ pc = "mr"
    /\ PyLen(all_commits) = 0
    /\ Get(RepoData, "last_commit_at", << >>) # << >>
    /\ stats.branches_count = 3
    /\ stats.commits_count = 3
    /\ stats.last_commit_at = RepoData.last_commit_at

\* the number a record carries under a key, 0 when it carries none
CountOf(repo, key) == IF key \in DOMAIN repo THEN repo[key] ELSE 0

\* the conjuncts of emptiness a record fails
NonEmptyReasons(repo) ==
    {c \in {"commits", "branches", "size", "timestamp", "indicator"} :
        \/ c = "commits" /\ CountOf(repo, "commits_count") # 0
        \/ c = "branches" /\ CountOf(repo, "branches_count") # 0
        \/ c = "size" /\ CountOf(repo, "size") # 0
        \/ c = "timestamp" /\ "last_commit_at" \in DOMAIN repo
                           /\ repo.last_commit_at # << >>
        \/ c = "indicator" /\ "has_commits_indicator" \in DOMAIN repo
                           /\ repo.has_commits_indicator}

\* the exported rows ("no file" is no row)
ExportedRows == IF csv_out = << >> THEN << >> ELSE csv_out[1]

\* C3: for every merged record, is_empty of the reporter and of the exporter
\* is true if and only if commits_count = 0, branches_count = 0, size = 0,
\* last_commit_at is absent or empty and has_commits_indicator is false; a
\* record that fails any one of the five is not empty.
C3_EmptyIffAllFive ==
    /\ Len(report) = Len(all_repositories)
    /\ \A i \in 1..Len(all_repositories) :
          (report[i] = "EMPTY REPOSITORY")
              <=> (NonEmptyReasons(all_repositories[i]) = {})
    /\ Len(ExportedRows) \in {0, Len(all_repositories)}
    /\ \A i \in 1..Len(ExportedRows) :
          (ExportedRows[i].Is_Empty = "True")
              <=> (NonEmptyReasons(all_repositories[i]) = {})

\* an exported run with an empty record and a record that fails exactly one
\* of the five conjuncts, the branch count
C3_Witness ==
    /\ pc = "done"
    /\ \E i, j \in 1..Len(ExportedRows) :
          /\ NonEmptyReasons(all_repositories[i]) = {}
          /\ report[i] = "EMPTY REPOSITORY"
          /\ ExportedRows[i].Is_Empty = "True"
          /\ NonEmptyReasons(all_repositories[j]) = {"branches"}
          /\ report[j] # "EMPTY REPOSITORY"
          /\ ExportedRows[j].Is_Empty # "True"

\* the record carries is_likely_imported = True
MarkedImported(repo) ==
    "is_likely_imported" \in DOMAIN repo /\ repo.is_likely_imported

\* the Is_Empty value the claim gives a record
ExpectedIsEmpty(repo) ==
    IF NonEmptyReasons(repo) = {} THEN "True"
    ELSE IF MarkedImported(repo) THEN "Imported"
    ELSE "False"

\* C10: every exported row has Is_Empty "True" exactly when the record is
\* empty, "Imported" exactly when it is not empty and is_likely_imported is
\* true, and "False" otherwise; and no record the lister and the enricher
\* produce is both empty and likely imported.
C10_IsEmptyColumn ==
    /\ \A i \in 1..Len(ExportedRows) :
          ExportedRows[i].Is_Empty = ExpectedIsEmpty(all_repositories[i])
    /\ \A i \in 1..Len(all_repositories) :
          ~(NonEmptyReasons(all_repositories[i]) = {}
              /\ MarkedImported(all_repositories[i]))
    /\ \A i \in 1..Len(repositories) :
          ~(NonEmptyReasons(repositories[i]) = {}
              /\ MarkedImported(repositories[i]))

\* an export with an imported repository's row and an empty repository's row
C10_Witness ==
    /\ pc = "done"
    /\ \E i, j \in 1..Len(ExportedRows) :
          /\ ExportedRows[i].Is_Empty = "Imported"
          /\ MarkedImported(all_repositories[i])
          /\ ExportedRows[j].Is_Empty = "True"
          /\ ~MarkedImported(all_repositories[j])

\* the sum of the record counts of the spaces processed
RECURSIVE SumCounts(_)
SumCounts(outs) ==
    IF outs = << >> THEN 0 ELSE Head(outs).count + SumCounts(Tail(outs))

\* the lister is in its loop over a tool listing of objects none of which is
\* of a recognized kind
NoRecognizedTool ==
    /\ pc = "tool"
    /\ \A i \in 1..Len(space_tools.items) :
          /\ IsDict(space_tools.items[i])
          /\ \/ "type" \notin DOMAIN space_tools.items[i]
             \/ space_tools.items[i].type
                   \notin {"GitTool", "SubversionTool", "PerforceDepotTool"}

\* the step ends the processing of a space
SpaceEnds == Len(outcomes') = Len(outcomes) + 1

LastOutcome == outcomes'[Len(outcomes')]

\* C5, at every state: the records accumulated are those the processed spaces
\* produced, and after the run the exporter has written one data row for each
C5_RowsAreRecords ==
    /\ Len(all_repositories) = SumCounts(outcomes)
    /\ pc = "done" =>
          /\ Len(ExportedRows) = SumCounts(outcomes)
          /\ Len(outcomes) = Len(spaces)
    /\ NoRecognizedTool => repositories = << >>

\* C5, at every step: a space whose listing has no repository of a recognized
\* kind ends as "empty", not as an error, with no record, and the run goes on
\* to the next space
C5_EmptySpaceStep ==
    (NoRecognizedTool /\ SpaceEnds) =>
        /\ LastOutcome = [result |-> "empty", count |-> 0]
        /\ all_repositories' = all_repositories
        /\ si' = si + 1
        /\ pc' = "space"

\* C5: after a full run the number of data rows written by the exporter is
\* the total number of merged records produced by all processed spaces; a
\* space whose tool listing has no repository of a recognized kind contributes
\* no row, is not treated as an error, and does not prevent the rows of the
\* other spaces from being exported.
C5_ExportedRowCount == [] C5_RowsAreRecords /\ [][C5_EmptySpaceStep]_vars

\* a run of two spaces, the first without a recognized tool, the second with
\* records, all of them exported
C5_Witness ==
    /\ pc = "done"
    /\ Len(outcomes) = 2
    /\ outcomes[1].result = "empty"
    /\ outcomes[2].result = "ok"
    /\ outcomes[2].count = 2
    /\ Len(ExportedRows) = 2

\* a request of the lister that failed: it raised, answered 4xx / 5xx, or its
\* body could not be decoded or used
ListingFailed(r) == r.ep \in {"repos", "space_tools"} /\ ~r.took

\* the step makes a request
Requests == Len(requests') = Len(requests) + 1

LastRequest == requests'[Len(requests')]

\* the records of the spaces before the i-th
RECURSIVE RecordsBefore(_)
RecordsBefore(i) == IF i <= 1 THEN 0 ELSE RecordsBefore(i - 1) + outcomes[i - 1].count

\* C6, at every state: the spaces are processed in order, a space that ended
\* in an error has no record, and the records of each other space are in the
\* aggregate, at its place
C6_SpacesInOrder ==
    /\ pc \notin {"start", "done"} => Len(outcomes) = si - 1
    /\ pc = "done" => Len(outcomes) = Len(spaces)
    /\ \A i \in 1..Len(outcomes) :
          /\ outcomes[i].result # "ok" => outcomes[i].count = 0
          /\ \A m \in 1..outcomes[i].count :
                /\ RecordsBefore(i) + m <= Len(all_repositories)
                /\ all_repositories[RecordsBefore(i) + m].space_name = spaces[i]

\* C6, at every step: the records accumulated stay as they are, and a failed
\* listing request ends the space without a record and passes to the next
C6_FailureStep ==
    /\ Len(all_repositories') >= Len(all_repositories)
    /\ SubSeq(all_repositories', 1, Len(all_repositories)) = all_repositories
    /\ (Requests /\ ListingFailed(LastRequest)) =>
          /\ SpaceEnds
          /\ LastOutcome = [result |-> "error", count |-> 0]
          /\ all_repositories' = all_repositories
          /\ si' = si + 1
          /\ pc' = "space"
    /\ (SpaceEnds /\ LastOutcome.result = "error") =>
          /\ all_repositories' = all_repositories
          /\ si' = si + 1
          /\ pc' = "space"

\* C6: a failure while listing one space (transport error, 4xx / 5xx status
\* on repos.json or space_tools.json, malformed body) makes that space
\* contribute no record; every other space is still processed in order with
\* its records unchanged in the aggregate, and the failure never removes or
\* alters the records accumulated before it.
C6_FailureIsolated == [] C6_SpacesInOrder /\ [][C6_FailureStep]_vars

\* the second space failed on an undecodable 200 body; the records of the
\* first are exported
C6_Witness ==
    /\ pc = "done"
    /\ Len(outcomes) = 2
    /\ outcomes[1].result = "ok"
    /\ outcomes[2].result = "error"
    /\ Len(ExportedRows) = outcomes[1].count
    /\ \E j \in 1..Len(requests) :
          /\ ListingFailed(requests[j])
          /\ requests[j].status = 200
          /\ requests[j].space = spaces[2]

\* the space had a failure and the one after it produced its records
C6_WitnessAfterFailure ==
    /\ pc = "done"
    /\ Len(outcomes) = 2
    /\ outcomes[1].result = "error"
    /\ outcomes[2].result = "ok"
    /\ Len(ExportedRows) = outcomes[2].count

\* the statistics keys of a record
StatisticsKeys ==
    {"commits_count", "branches_count", "tags_count", "merge_requests_count"}

\* C7: every Git repository is in its space's result whichever sub-fetch
\* raised or answered an unusable payload, and its merged record always
\* carries commits_count, branches_count, tags_count and merge_requests_count
\* (the default 0 for a failed sub-fetch, the value obtained for the others).
C7_AsStated ==
    \A i \in 1..Len(repositories) :
        repositories[i].type = "GitTool" =>
            StatisticsKeys \subseteq DOMAIN repositories[i]

\* is the tool of a kind the lister keeps
Recognized(tool) ==
    /\ IsDict(tool)
    /\ "type" \in DOMAIN tool
    /\ tool.type \in {"GitTool", "SubversionTool", "PerforceDepotTool"}

\* the tools of the listing the loop has passed
ToolsPassed ==
    SubSeq(space_tools.items, 1,
           IF ti - 1 <= Len(space_tools.items) THEN ti - 1 ELSE Len(space_tools.items))

\* the detail records with the id
DetailsOf(id) == {i \in 1..Len(repos_lookup) : repos_lookup[i].id = id}

\* the record is the tool, with a detail record of its id when there is one
JoinedWith(record, tool) ==
    /\ record.id = tool.id
    /\ record.type = tool.type
    /\ IF DetailsOf(tool.id) = {}
       THEN "size" \notin DOMAIN record /\ "is_likely_imported" \notin DOMAIN record
       ELSE \E d \in DetailsOf(tool.id) :
              /\ "size" \in DOMAIN record
              /\ record.size = repos_lookup[d].size
              /\ record.is_likely_imported
                    = ("last_commit_at" \in DOMAIN repos_lookup[d]
                          /\ repos_lookup[d].last_commit_at # << >>)

StatisticsPlaces ==
    {"branches", "branch_alt", "tags", "branch_commits", "commits", "commit_alt",
     "finalize", "mr"}

\* C8, at every state of the lister's loop: the result so far is the
\* recognized tools passed, in the order of the listing, each joined with its
\* detail record; statistics are being fetched for a GitTool only
C8_ResultSoFar ==
    /\ pc \in {"tool"} \cup StatisticsPlaces =>
          LET kept == SelectSeq(ToolsPassed, Recognized)
          IN  /\ Len(repositories) = Len(kept)
              /\ \A i \in 1..Len(kept) : JoinedWith(repositories[i], kept[i])
    /\ pc \in StatisticsPlaces =>
          /\ ti <= Len(space_tools.items)
          /\ space_tools.items[ti].type = "GitTool"
          /\ repo_info.id = space_tools.items[ti].id
          /\ JoinedWith(repo_info, space_tools.items[ti])

\* C8, at every step: the result returned is the result of the whole listing,
\* and a statistics request is for the GitTool in progress
C8_Step ==
    /\ (SpaceEnds /\ LastOutcome.result = "ok") =>
          /\ ti > Len(space_tools.items)
          /\ all_repositories' = all_repositories \o repositories
    /\ (Requests /\ LastRequest.ep \notin {"repos", "space_tools"}) =>
          /\ space_tools.items[ti].type = "GitTool"
          /\ LastRequest.repo = space_tools.items[ti].id
          /\ LastRequest.space = spaces[si]

\* C8: the lister's result is exactly the tool-listing entries of type
\* GitTool, SubversionTool or PerforceDepotTool, in the order of the listing;
\* each has the detail record with its id when there is one and none
\* otherwise; statistics requests are made for GitTool entries only.
C8_ListerResult == [] C8_ResultSoFar /\ [][C8_Step]_vars

\* a listing of a SubversionTool with a detail and a GitTool without one: both
\* are in the result, in that order, and only the GitTool had requests
C8_Witness ==
    /\ pc = "done"
    /\ Len(all_repositories) = 2
    /\ all_repositories[1].type = "SubversionTool"
    /\ "size" \in DOMAIN all_repositories[1]
    /\ all_repositories[2].type = "GitTool"
    /\ "size" \notin DOMAIN all_repositories[2]
    /\ \E j \in 1..Len(requests) : requests[j].ep = "tags" /\ requests[j].repo = 1
    /\ \A j \in 1..Len(requests) :
          requests[j].ep \notin {"repos", "space_tools"} => requests[j].repo = 1

\* the places of s that hold a character other than whitespace
Ink(s) == {i \in 1..Len(s) : s[i] \notin {" ", "\t", "\n", "\r"}}

\* s from its first to its last character that is not whitespace
Trimmed(s) ==
    IF Ink(s) = {} THEN << >>
    ELSE SubSeq(s, CHOOSE a \in Ink(s) : \A i \in Ink(s) : a <= i,
                   CHOOSE b \in Ink(s) : \A i \in Ink(s) : b >= i)

\* the value names a space to process
NamesASpace(t) == t # << >> /\ t # Placeholder

\* the input rows that name a space, trimmed, in file order
ExpectedSpaces ==
    SelectSeq([i \in 1..Len(csv_rows) |-> Trimmed(csv_rows[i])], NamesASpace)

\* C9, at every state: the spaces of the run are the rows that name one, and
\* every request made is for one of them
C9_SpacesOfRun ==
    LET expected == ExpectedSpaces
    IN  /\ pc # "start" => spaces = expected
        /\ pc = "done" => Len(outcomes) = Len(expected)
        /\ \A j \in 1..Len(requests) :
              \E i \in 1..Len(expected) : requests[j].space = expected[i]

\* C9, at every step: a request is for the space in progress, and the spaces
\* are taken one after the other
C9_Step ==
    /\ Requests =>
          /\ si \in 1..Len(ExpectedSpaces)
          /\ LastRequest.space = ExpectedSpaces[si]
    /\ SpaceEnds => si' = si + 1 /\ Len(outcomes) = si - 1

\* C9: the spaces processed by a run are exactly the input rows whose
\* space_name, trimmed, is non-empty and not "My Project Space", in file
\* order; a skipped row causes no HTTP request.
C9_ProcessedSpaces == [] C9_SpacesOfRun /\ [][C9_Step]_vars

\* rows ["Alpha", "My Project Space"]: one space processed, "Alpha"
C9_Witness ==
    /\ pc = "done"
    /\ csv_rows = <<Alpha, Placeholder>>
    /\ spaces = <<Alpha>>
    /\ Len(outcomes) = 1
    /\ requests # << >>
    /\ \A j \in 1..Len(requests) : requests[j].space = Alpha

\* the configuration of the run is in error: no space list, no valid space in
\* it, or a credential missing
ConfigurationError ==
    \/ csv_file = "missing"
    \/ ExpectedSpaces = << >>
    \/ creds.api_key = << >>
    \/ creds.api_secret = << >>

\* C11: with a configuration error (the space list missing or without a valid
\* space, or either of x-api-key and x-api-secret missing) the run makes no
\* HTTP request for any space, writes no output file, and ends normally: it
\* goes on until main returns.
C11_ConfigurationErrorIsFatal ==
    ConfigurationError =>
        /\ requests = << >>
        /\ all_repositories = << >>
        /\ csv_out = << >>
        /\ \A i \in 1..Len(outcomes) : outcomes[i].result = "no_credentials"
        /\ pc # "done" => ENABLED Next

\* two valid spaces, the key set and the secret missing: the run has ended
\* with no request and no file
C11_Witness ==
    /\ pc = "done"
    /\ Len(spaces) = 2
    /\ creds.api_key # << >>
    /\ creds.api_secret = << >>
    /\ Len(outcomes) = 2
    /\ requests = << >>
    /\ csv_out = << >>

\* the space list is missing: the run has ended with no request and no file
C11_WitnessNoSpaceList ==
    /\ pc = "done"
    /\ csv_file = "missing"
    /\ creds = BothSet
    /\ requests = << >>
    /\ csv_out = << >>

\* the timestamp field of a commit: authored_at, else committed_at, else date
TimestampField(c) ==
    IF "authored_at" \in DOMAIN c THEN c.authored_at
    ELSE IF "committed_at" \in DOMAIN c THEN c.committed_at
    ELSE IF "date" \in DOMAIN c THEN c.date
    ELSE << >>

\* the enricher has obtained at least one commit, all of them objects
CommitsObtained ==
    /\ pc \in {"finalize", "mr"}
    /\ all_commits.kind = "list"
    /\ all_commits.items # << >>
    /\ \A i \in 1..Len(all_commits.items) : IsDict(all_commits.items[i])

\* latest_commit is a commit of the aggregate with a maximal timestamp field
LatestIsMaximal ==
    /\ latest_commit # << >>
    /\ \E i \in 1..Len(all_commits.items) :
          /\ latest_commit[1] = all_commits.items[i]
          /\ \A j \in 1..Len(all_commits.items) :
                ~StrGT(TimestampField(all_commits.items[j]),
                       TimestampField(all_commits.items[i]))

\* C12 as stated: whenever the enricher has obtained a commit, on either
\* path, the commit reported as latest is a commit of the aggregate whose
\* timestamp field is lexicographically maximal among its commits.
C12_AsStated == (CommitsObtained /\ latest_commit # << >>) => LatestIsMaximal

\* C12, amended: on the per-branch path, when some commit of the aggregate has
\* a non-empty timestamp field (authored_at, else committed_at, else date),
\* the commit reported as latest is a commit of the aggregate whose timestamp
\* field is lexicographically maximal, and when none has one no commit is
\* reported as latest; on the path without a branch the commit reported as
\* latest is the first of the answered list, whatever its timestamp.
C12_LatestCommit ==
    CommitsObtained =>
        IF PerBranchPath
        THEN IF \E i \in 1..Len(all_commits.items) :
                   TimestampField(all_commits.items[i]) # << >>
             THEN /\ LatestIsMaximal
                  /\ latest_commit_date = TimestampField(latest_commit[1])
                  /\ pc = "mr" =>
                        stats.last_commit_at =
                            Get(latest_commit[1], "authored_at",
                                Get(latest_commit[1], "committed_at", << >>))
             ELSE /\ latest_commit = << >>
                  /\ pc = "mr" => stats.last_commit_author = << >>
        ELSE latest_commit = <<all_commits.items[1]>>

\* per branch: the second commit of the aggregate has the greater timestamp
\* and is the one reported
C12_Witness ==
    /\ CommitsObtained
    /\ pc = "mr"
    /\ PerBranchPath
    /\ Len(all_commits.items) = 2
    /\ StrGT(TimestampField(all_commits.items[2]), TimestampField(all_commits.items[1]))
    /\ latest_commit = <<all_commits.items[2]>>
    /\ stats.last_commit_at = TimestampField(all_commits.items[2])

\* per branch: a commit was obtained, none with a timestamp, none reported
C12_WitnessUndated ==
    /\ CommitsObtained
    /\ pc = "mr"
    /\ PerBranchPath
    /\ latest_commit = << >>

\* the place in requests of the primary branches request of the repository
\* in progress (every enrichment starts with it)
EnrichmentStart ==
    CHOOSE j \in 1..Len(requests) :
        /\ requests[j].ep = "branches" /\ requests[j].alt = 0
        /\ \A m \in (j + 1)..Len(requests) :
              ~(requests[m].ep = "branches" /\ requests[m].alt = 0)

\* the commits requests made for the repository in progress, in order
CommitRequests ==
    SelectSeq(SubSeq(requests, EnrichmentStart, Len(requests)),
              LAMBDA r : r.ep = "commits")

\* at least one branch was discovered: a non-empty list of branch objects
BranchesDiscovered ==
    /\ branches_list.kind = "list"
    /\ branches_list.items # << >>
    /\ \A i \in 1..Len(branches_list.items) : IsDict(branches_list.items[i])

\* the branch query parameter the claim expects: the name, else the id, else none
ExpectedBranchParam(branch) ==
    IF "name" \in DOMAIN branch THEN <<branch.name>>
    ELSE IF "id" \in DOMAIN branch THEN <<branch.id>>
    ELSE << >>

C13_WitnessAlternates ==
    /\ pc = "mr"
    /\ ~JTruthy(branches_list)
    /\ Len(CommitRequests) = 4
    /\ CommitRequests[1].status = 422

\* last_commit_at of the detail record the lister joins to the id ("" when
\* there is none)
DetailLastCommitAt(id) ==
    Get(RepoDataForStats(repos_lookup, id), "last_commit_at", << >>)

\* the record has been through the enricher
Enriched(repo) == StatisticsKeys \subseteq DOMAIN repo

\* C14: merging the statistics into a record never erases a last-commit
\* timestamp of the detail record: every enriched Git repository whose detail
\* record has a non-empty last_commit_at has a non-empty last_commit_at in
\* its merged record, whatever the branches and commits answers were.
C14_AsStated ==
    \A i \in 1..Len(repositories) :
        ( /\ repositories[i].type = "GitTool"
          /\ Enriched(repositories[i])
          /\ DetailLastCommitAt(repositories[i].id) # << >> )
            => Get(repositories[i], "last_commit_at", << >>) # << >>

====
